---- MODULE Spec2Model ----
(***************************************************************************)
(* Queue Master (src/src/App.tsx): rotation of players through courts.     *)
(*                                                                         *)
(* The state is the React state of QueueMasterApp.  Every event handler of *)
(* the component is one action; the passive effects React runs after a     *)
(* commit (armed auto-fill, sanitize) are one action, EffectsPass, which   *)
(* must run before the next event is handled.                              *)
(*                                                                         *)
(* Sequences are 1-based here and 0-based in the source: set index i of    *)
(* the source is i + 1 in the model.                                       *)
(***************************************************************************)
EXTENDS Integers, Sequences, FiniteSets, TLC

VARIABLES players, courts, readySets, firstMatchDone, startArmed,
          assignOpen, editTargetId,
          uidP, uidC, pending

vars == <<players, courts, readySets, firstMatchDone, startArmed,
          assignOpen, editTargetId,
          uidP, uidC, pending>>

entities == <<players, courts, readySets>>

(* ------------------------------ bounds --------------------------------- *)
MaxPlayers == 5
MaxCourts == 1
MaxSets == 2
MaxMatches == 1
MaxDeletes == 1
FillPool == 3

(* ------------------------- program constants --------------------------- *)
capacity == 4

Novice == 1
Intermediate == 2
Advance == 3
SKILL_ORDER == [s \in {Novice, Intermediate, Advance} |-> s]

(* ------------------------------ helpers -------------------------------- *)
Includes(s, x) == \E k \in 1..Len(s) : s[k] = x

Range(s) == {s[k] : k \in 1..Len(s)}

(* mutant: at most one *)
Min_AtMostOne(a, b) == IF a < 1 \/ b < 1 THEN 0 ELSE 1

Min(a, b) == IF a < b THEN a ELSE b

(* an optional value: <<>> is null, <<v>> is v *)
Null == <<>>
Some(v) == <<v>>

(* the name and skill typed into the add-player form for the n-th player. *)
(* A name is held as its rank in the collation order of localeCompare,    *)
(* the only use the handlers make of it; equal ranks compare as zero.     *)
FormName(n) == 1 + (n % 2)
FormSkill(n) == 1 + ((n \div 2) % 3)

(* uid(prefix): a fresh id; the n-th id issued for a prefix is n *)
uid(n) == n + 1

(* --------------------------- pure helpers ------------------------------ *)
(* mutant: the assigned set is removed and no empty set is appended *)
shiftSetsAfterAssign_NoPush(sets, index) ==
    LET copy == [k \in 1..(Len(sets) - 1) |->
                    IF k < index THEN sets[k] ELSE sets[k + 1]]
    IN  IF Len(copy) = 0 THEN <<<<>>>> ELSE copy

shiftSetsAfterAssign(sets, index) ==
    LET copy == [k \in 1..(Len(sets) - 1) |->
                    IF k < index THEN sets[k] ELSE sets[k + 1]]
        pushed == IF index \in 1..Len(sets) THEN copy \o <<<<>>>>
                  ELSE sets \o <<<<>>>>
    IN  IF Len(pushed) = 0 THEN <<<<>>>> ELSE pushed

RECURSIVE distributeLoop(_, _, _)
distributeLoop(sets, queueIds, cap) ==
    IF sets = <<>> THEN [sets |-> <<>>, used |-> <<>>]
    ELSE LET room == IF Len(Head(sets)) < cap THEN cap - Len(Head(sets)) ELSE 0
             n == Min(room, Len(queueIds))
             taken == SubSeq(queueIds, 1, n)
             rest == distributeLoop(Tail(sets),
                                    SubSeq(queueIds, n + 1, Len(queueIds)), cap)
         IN  [sets |-> <<Head(sets) \o taken>> \o rest.sets,
              used |-> taken \o rest.used]

(* mutant: only the first set is filled *)
distributeFill_FirstSetOnly(sets, queueIds, cap) ==
    LET r == distributeLoop(<<Head(sets)>>, queueIds, cap)
    IN  [sets |-> r.sets \o Tail(sets), used |-> r.used]

distributeFill(sets, queueIds, cap) ==
    LET r == distributeLoop(sets, queueIds, cap)
    IN  [sets |-> IF Len(r.sets) = 0 THEN <<<<>>>> ELSE r.sets, used |-> r.used]

(* mutant: most matches first *)
compare_MostMatchesFirst(a, b) ==
    IF a.matches # b.matches THEN b.matches - a.matches
    ELSE IF a.skill # b.skill THEN a.skill - b.skill
         ELSE a.name - b.name

(* the comparator of fillAllSets: negative, zero or positive *)
compare(a, b) ==
    IF a.matches # b.matches THEN a.matches - b.matches
    ELSE IF SKILL_ORDER[a.skill] # SKILL_ORDER[b.skill]
         THEN SKILL_ORDER[a.skill] - SKILL_ORDER[b.skill]
         ELSE a.name - b.name

(* Array.prototype.sort is stable: x goes after every element not above it *)
RECURSIVE insertSorted(_, _)
insertSorted(sorted, x) ==
    IF sorted = <<>> THEN <<x>>
    ELSE LET last == sorted[Len(sorted)]
         IN  IF compare(last, x) <= 0 THEN Append(sorted, x)
             ELSE Append(insertSorted(SubSeq(sorted, 1, Len(sorted) - 1), x), last)

RECURSIVE sortPool(_)
sortPool(pool) ==
    IF pool = <<>> THEN <<>>
    ELSE insertSorted(sortPool(SubSeq(pool, 1, Len(pool) - 1)), pool[Len(pool)])

(* shuffleArr: the Fisher-Yates loop.  draws[i] is the slot that            *)
(* Math.floor(Math.random() * (i + 1)) picks for slot i, counted from 1:   *)
(* any slot up to i.  The result is a set: one array for each run of draws.*)
swapAt(a, i, j) == [a EXCEPT ![i] = a[j], ![j] = a[i]]

shuffleDraws(n) == {d \in [2..n -> 1..n] : \A i \in 2..n : d[i] <= i}

RECURSIVE shuffleLoop(_, _, _)
shuffleLoop(a, i, draws) ==
    IF i < 2 THEN a ELSE shuffleLoop(swapAt(a, i, draws[i]), i - 1, draws)

(* mutant: the array is returned in its input order *)
shuffleArr_InputOrder(arr) == {arr}

shuffleArr(arr) == {shuffleLoop(arr, Len(arr), d) : d \in shuffleDraws(Len(arr))}

(* ------------------------------ derived -------------------------------- *)
IsPool(p) == p.status = "pool"

poolPlayers == SelectSeq(players, IsPool)

playerIds == {players[k].id : k \in 1..Len(players)}

courtIds == {courts[k].id : k \in 1..Len(courts)}

(* mutant: the assign modal lists every court *)
idleCourts_AllCourts == courtIds

idleCourts == {courts[k].id : k \in {j \in 1..Len(courts) : Len(courts[j].playingIds) = 0}}

anyMatches == \E k \in 1..Len(players) : players[k].matches > 0

(* mutant: the queue is built from all players, not from the pool *)
fillQueues_AllPlayers ==
    IF anyMatches THEN {sortPool(players)} ELSE shuffleArr(players)

(* the queues fillAllSets can build from the rendered players *)
fillQueues ==
    IF anyMatches THEN {sortPool(poolPlayers)} ELSE shuffleArr(poolPlayers)

(* mutant: every change of status is counted as a match *)
setStatus_Counted(prev, ids, st) ==
    [k \in 1..Len(prev) |->
        IF prev[k].id \in ids
        THEN [prev[k] EXCEPT !.status = st, !.matches = @ + 1]
        ELSE prev[k]]

setStatus(prev, ids, st) ==
    [k \in 1..Len(prev) |->
        IF prev[k].id \in ids THEN [prev[k] EXCEPT !.status = st] ELSE prev[k]]

(* mutant: the counter is raised and the status is left as it was *)
finishMatch_KeepsStatus(prev, ids) ==
    [k \in 1..Len(prev) |->
        IF prev[k].id \in ids
        THEN [prev[k] EXCEPT !.matches = @ + 1]
        ELSE prev[k]]

finishMatch(prev, ids) ==
    [k \in 1..Len(prev) |->
        IF prev[k].id \in ids
        THEN [prev[k] EXCEPT !.status = "pool", !.matches = @ + 1]
        ELSE prev[k]]

(* mutant: the id is left where it is *)
withoutId_Kept(s, id) == s

withoutId(s, id) == LET keep(x) == x # id IN SelectSeq(s, keep)

(* what fillAllSets sets for a queue: the new sets and the used ids *)
fillAllSets(queue) ==
    distributeFill(readySets, [k \in 1..Len(queue) |-> queue[k].id], capacity)

(* no effect is waiting: React handles the next event *)
Quiescent == pending = {}

(* The effects of the next commit that do something: the sanitize effect   *)
(* runs when players changed; the auto-fill effect runs when players,      *)
(* readySets or startArmed changed and returns at once unless armed.       *)
(* mutant: the sanitize effect also runs when the sets changed *)
dueEffects_SetsToo(playersChanged, setsChanged, armedChanged, armed) ==
    (IF playersChanged \/ setsChanged THEN {"sanitize"} ELSE {})
      \cup (IF armed /\ (playersChanged \/ setsChanged \/ armedChanged)
            THEN {"autoFill"} ELSE {})

(* mutant: the auto-fill effect is never due *)
dueEffects_SanitizeOnly(playersChanged, setsChanged, armedChanged, armed) ==
    IF playersChanged THEN {"sanitize"} ELSE {}

dueEffects(playersChanged, setsChanged, armedChanged, armed) ==
    (IF playersChanged THEN {"sanitize"} ELSE {})
      \cup (IF armed /\ (playersChanged \/ setsChanged \/ armedChanged)
            THEN {"autoFill"} ELSE {})

(* ------------------------------- Init ---------------------------------- *)
(* loadLS falls back when nothing is stored; an empty stored list of sets  *)
(* is replaced by one empty set.                                           *)
(* mutant: the stored list is taken as it is *)
initialReadySets_NoFallback(fromLS) == fromLS

initialReadySets(fromLS) == IF Len(fromLS) # 0 THEN fromLS ELSE <<<<>>>>

Init ==
    /\ players = <<>>
    /\ courts = <<>>
    /\ \E fromLS \in {<<>>, <<<<>>>>} : readySets = initialReadySets(fromLS)
    /\ firstMatchDone = FALSE
    /\ startArmed = FALSE
    /\ assignOpen = FALSE
    /\ editTargetId = Null
    /\ uidP = 0
    /\ uidC = 0
    /\ pending = dueEffects(TRUE, TRUE, TRUE, FALSE)

modalVars == <<assignOpen, editTargetId>>

(* ---------------------------- player actions --------------------------- *)
confirmAddPlayer ==
    /\ Quiescent
    /\ uidP < MaxPlayers
    /\ LET newP == [id |-> uid(uidP), name |-> FormName(uidP),
                    skill |-> FormSkill(uidP), matches |-> 0, status |-> "pool"]
       IN  players' = <<newP>> \o players
    /\ uidP' = uidP + 1
    /\ pending' = dueEffects(TRUE, FALSE, FALSE, startArmed)
    /\ UNCHANGED <<courts, readySets, firstMatchDone, startArmed, modalVars, uidC>>

(* a click on a row of the pool list *)
openEditModal(id) ==
    /\ Quiescent
    /\ id \in Range([k \in 1..Len(poolPlayers) |-> poolPlayers[k].id])
    /\ editTargetId' = Some(id)
    /\ UNCHANGED <<entities, firstMatchDone, startArmed, assignOpen,
                   uidP, uidC, pending>>

(* the same, while fewer than MaxDeletes players have been deleted *)
openEditPlayer(id) ==
    /\ uidP - Len(players) < MaxDeletes
    /\ openEditModal(id)

cancelEditPlayer ==
    /\ Quiescent
    /\ editTargetId # Null
    /\ editTargetId' = Null
    /\ UNCHANGED <<entities, firstMatchDone, startArmed, assignOpen,
                   uidP, uidC, pending>>

saveEditPlayer ==
    /\ Quiescent
    /\ editTargetId # Null
    /\ players' = [k \in 1..Len(players) |-> players[k]]
    /\ editTargetId' = Null
    /\ pending' = dueEffects(TRUE, FALSE, FALSE, startArmed)
    /\ UNCHANGED <<courts, readySets, firstMatchDone, startArmed, assignOpen,
                   uidP, uidC>>

(* mutant: the court of the deleted player loses its start time *)
deletePlayerCourts_ClearsStart(prev, id) ==
    [k \in 1..Len(prev) |->
        IF Includes(prev[k].playingIds, id)
        THEN [prev[k] EXCEPT !.playingIds = withoutId(@, id), !.startedAt = "null"]
        ELSE prev[k]]

deletePlayerCourts(prev, id) ==
    [k \in 1..Len(prev) |->
        IF Includes(prev[k].playingIds, id)
        THEN [prev[k] EXCEPT !.playingIds = withoutId(@, id)]
        ELSE prev[k]]

deletePlayer ==
    /\ Quiescent
    /\ editTargetId # Null
    /\ LET id == editTargetId[1]
           keep(p) == p.id # id
       IN  /\ readySets' = [k \in 1..Len(readySets) |-> withoutId(readySets[k], id)]
           /\ courts' = deletePlayerCourts(courts, id)
           /\ players' = SelectSeq(players, keep)
    /\ editTargetId' = Null
    /\ pending' = dueEffects(TRUE, TRUE, FALSE, startArmed)
    /\ UNCHANGED <<firstMatchDone, startArmed, assignOpen,
                   uidP, uidC>>

(* mutant: the last set with space *)
firstFreeSet_Last(sets) ==
    LET free == {k \in 1..Len(sets) : Len(sets[k]) < capacity}
    IN  IF free = {} THEN 0 ELSE CHOOSE k \in free : \A j \in free : k >= j

(* mutant: a full set counts as having space *)
firstFreeSet_OffByOne(sets) ==
    LET free == {k \in 1..Len(sets) : Len(sets[k]) <= capacity}
    IN  IF free = {} THEN 0 ELSE CHOOSE k \in free : \A j \in free : k <= j

(* the first set with space: findIndex, 0 when there is none *)
firstFreeSet(sets) ==
    LET free == {k \in 1..Len(sets) : Len(sets[k]) < capacity}
    IN  IF free = {} THEN 0 ELSE CHOOSE k \in free : \A j \in free : k <= j

(* mutant: a Ready button is shown for every player *)
readyChoices_AllPlayers == playerIds

(* the ids that have a Ready button: the pool list of this render *)
readyChoices == Range([k \in 1..Len(poolPlayers) |-> poolPlayers[k].id])

addToReady(id) ==
    /\ Quiescent
    /\ id \in readyChoices
    /\ \E k \in 1..Len(readySets) : Len(readySets[k]) < capacity
    /\ LET targetIndex == firstFreeSet(readySets)
       IN  IF targetIndex = 0
           THEN UNCHANGED <<players, readySets, pending>>
           ELSE /\ players' = setStatus(players, {id}, "ready")
                /\ readySets' = [readySets EXCEPT ![targetIndex] = Append(@, id)]
                /\ pending' = dueEffects(TRUE, TRUE, FALSE, startArmed)
    /\ UNCHANGED <<courts, firstMatchDone, startArmed, modalVars, uidP, uidC>>

(* ----------------------------- swap modal ------------------------------ *)
(* the id at a slot, Null for undefined *)
slotId(sets, setIndex, readyIndex) ==
    IF setIndex \in 1..Len(sets) /\ readyIndex \in 1..Len(sets[setIndex])
    THEN Some(sets[setIndex][readyIndex]) ELSE Null

(* mutant: the incoming player is put at the end of the set *)
swapReadyWithPool_AtEnd(setIndex, readyIndex, poolPlayerId) ==
    LET out == slotId(readySets, setIndex, readyIndex)
    IN  IF out = Null
        THEN UNCHANGED <<players, readySets, pending>>
        ELSE /\ players' = setStatus(setStatus(players, {out[1]}, "pool"),
                                     {poolPlayerId}, "ready")
             /\ readySets' = [readySets EXCEPT ![setIndex] =
                                 Append(withoutId(@, out[1]), poolPlayerId)]
             /\ pending' = dueEffects(TRUE, TRUE, FALSE, startArmed)

(* mutant: the outgoing player is not returned to the pool *)
swapReadyWithPool_KeepsOut(setIndex, readyIndex, poolPlayerId) ==
    LET out == slotId(readySets, setIndex, readyIndex)
    IN  IF out = Null
        THEN UNCHANGED <<players, readySets, pending>>
        ELSE /\ players' = setStatus(players, {poolPlayerId}, "ready")
             /\ readySets' = [k \in 1..Len(readySets) |->
                                IF k = setIndex
                                THEN [j \in 1..Len(readySets[k]) |->
                                        IF j = readyIndex THEN poolPlayerId
                                        ELSE readySets[k][j]]
                                ELSE readySets[k]]
             /\ pending' = dueEffects(TRUE, TRUE, FALSE, startArmed)

swapReadyWithPool(setIndex, readyIndex, poolPlayerId) ==
    LET out == slotId(readySets, setIndex, readyIndex)
    IN  IF out = Null
        THEN UNCHANGED <<players, readySets, pending>>
        ELSE /\ players' = setStatus(setStatus(players, {out[1]}, "pool"),
                                     {poolPlayerId}, "ready")
             /\ readySets' = [k \in 1..Len(readySets) |->
                                IF k = setIndex
                                THEN [j \in 1..Len(readySets[k]) |->
                                        IF j = readyIndex THEN poolPlayerId
                                        ELSE readySets[k][j]]
                                ELSE readySets[k]]
             /\ pending' = dueEffects(TRUE, TRUE, FALSE, startArmed)

(* mutant: the swap modal lists every player *)
swapChoices_AllPlayers == playerIds

(* the ids the swap modal lists: the pool players of this render *)
swapChoices == Range([k \in 1..Len(poolPlayers) |-> poolPlayers[k].id])

(* The swap modal's onChoose.  swapSetIndex and swapIndex were stored by   *)
(* an earlier click on a tile and may be stale by now, so they are inputs: *)
(* a stale slot either holds another ready player or is undefined.         *)
chooseSwap(swapSetIndex, swapIndex, poolId) ==
    /\ Quiescent
    /\ poolId \in swapChoices
    /\ swapReadyWithPool(swapSetIndex, swapIndex, poolId)
    /\ UNCHANGED <<courts, firstMatchDone, startArmed, modalVars, uidP, uidC>>

(* --------------------------- ready-set actions ------------------------- *)
clickStart ==
    /\ Quiescent
    /\ startArmed' = TRUE
    /\ \E queue \in fillQueues :
          LET r == fillAllSets(queue)
          IN  IF Len(r.used) = 0
              THEN /\ UNCHANGED <<players, readySets>>
                   /\ pending' = dueEffects(FALSE, FALSE, ~startArmed, TRUE)
              ELSE /\ readySets' = r.sets
                   /\ players' = setStatus(players, Range(r.used), "ready")
                   /\ pending' = dueEffects(TRUE, TRUE, ~startArmed, TRUE)
    /\ UNCHANGED <<courts, firstMatchDone, modalVars, uidP, uidC>>

addReadySet ==
    /\ Quiescent
    /\ Len(readySets) < MaxSets
    /\ readySets' = readySets \o <<<<>>>>
    /\ pending' = dueEffects(FALSE, TRUE, FALSE, startArmed)
    /\ UNCHANGED <<players, courts, firstMatchDone, startArmed, modalVars, uidP, uidC>>

(* mutant: the players of the removed set stay "ready" *)
removeSet_KeepsReady(setIndex) ==
    /\ Quiescent
    /\ setIndex \in 1..Len(readySets)
    /\ LET copy == [k \in 1..(Len(readySets) - 1) |->
                      IF k < setIndex THEN readySets[k] ELSE readySets[k + 1]]
       IN  /\ readySets' = IF Len(copy) = 0 THEN <<<<>>>> ELSE copy
           /\ pending' = dueEffects(FALSE, TRUE, FALSE, startArmed)
    /\ UNCHANGED <<players, courts, firstMatchDone, startArmed, modalVars, uidP, uidC>>

removeSet(setIndex) ==
    /\ Quiescent
    /\ setIndex \in 1..Len(readySets)
    /\ LET current == readySets[setIndex]
           copy == [k \in 1..(Len(readySets) - 1) |->
                      IF k < setIndex THEN readySets[k] ELSE readySets[k + 1]]
       IN  /\ players' = IF Len(current) # 0
                         THEN setStatus(players, Range(current), "pool")
                         ELSE players
           /\ readySets' = IF Len(copy) = 0 THEN <<<<>>>> ELSE copy
           /\ pending' = dueEffects(Len(current) # 0, TRUE, FALSE, startArmed)
    /\ UNCHANGED <<courts, firstMatchDone, startArmed, modalVars, uidP, uidC>>

(* the only set index Play ever stores: the first set *)
assignTargetSet == 1

clickPlay ==
    /\ Quiescent
    /\ Len(readySets) >= 1
    /\ Len(readySets[1]) = capacity
    /\ assignOpen' = TRUE
    /\ firstMatchDone' = TRUE
    /\ UNCHANGED <<entities, startArmed, editTargetId, uidP, uidC, pending>>

closeAssign ==
    /\ Quiescent
    /\ assignOpen
    /\ assignOpen' = FALSE
    /\ UNCHANGED <<entities, firstMatchDone, startArmed, editTargetId,
                   uidP, uidC, pending>>

(* ----------------------------- court actions --------------------------- *)
addCourt ==
    /\ Quiescent
    /\ uidC < MaxCourts
    /\ courts' = Append(courts, [id |-> uid(uidC), playingIds |-> <<>>, startedAt |-> "null"])
    /\ uidC' = uidC + 1
    /\ UNCHANGED <<players, readySets, firstMatchDone, startArmed, modalVars, uidP, pending>>

courtById(id) == courts[CHOOSE k \in 1..Len(courts) : courts[k].id = id]

(* the guard that keeps the matches counters within MaxMatches *)
CanCount(ids) ==
    \A k \in 1..Len(players) : players[k].id \in ids => players[k].matches < MaxMatches

(* mutant: the match of a removed court is not counted *)
removeCourt_NoCount(id) ==
    /\ Quiescent
    /\ id \in courtIds
    /\ LET court == courtById(id)
           keep(c) == c.id # id
       IN  /\ IF Len(court.playingIds) # 0
              THEN /\ players' = setStatus(players, Range(court.playingIds), "pool")
                   /\ pending' = dueEffects(TRUE, FALSE, FALSE, startArmed)
              ELSE UNCHANGED <<players, pending>>
           /\ courts' = SelectSeq(courts, keep)
    /\ UNCHANGED <<readySets, firstMatchDone, startArmed, modalVars, uidP, uidC>>

removeCourt(id) ==
    /\ Quiescent
    /\ id \in courtIds
    /\ LET court == courtById(id)
           keep(c) == c.id # id
       IN  /\ CanCount(Range(court.playingIds))
           /\ IF Len(court.playingIds) # 0
              THEN /\ players' = finishMatch(players, Range(court.playingIds))
                   /\ pending' = dueEffects(TRUE, FALSE, FALSE, startArmed)
              ELSE UNCHANGED <<players, pending>>
           /\ courts' = SelectSeq(courts, keep)
    /\ UNCHANGED <<readySets, firstMatchDone, startArmed, modalVars, uidP, uidC>>

(* mutant: the start of the match is not recorded *)
assignSetToCourt_NoStart(setIndex, courtId) ==
    LET ids == IF setIndex \in 1..Len(readySets) THEN readySets[setIndex] ELSE <<>>
    IN  IF Len(ids) # 4
        THEN UNCHANGED <<players, courts, readySets, pending>>
        ELSE /\ courts' = [k \in 1..Len(courts) |->
                             IF courts[k].id = courtId
                             THEN [courts[k] EXCEPT !.playingIds = ids]
                             ELSE courts[k]]
             /\ players' = setStatus(players, Range(ids), "playing")
             /\ readySets' = shiftSetsAfterAssign(readySets, setIndex)
             /\ pending' = dueEffects(TRUE, TRUE, FALSE, startArmed)

(* mutant: the assigned set stays in the list of sets *)
assignSetToCourt_KeepsSet(setIndex, courtId) ==
    LET ids == IF setIndex \in 1..Len(readySets) THEN readySets[setIndex] ELSE <<>>
    IN  IF Len(ids) # 4
        THEN UNCHANGED <<players, courts, readySets, pending>>
        ELSE /\ courts' = [k \in 1..Len(courts) |->
                             IF courts[k].id = courtId
                             THEN [courts[k] EXCEPT !.playingIds = ids, !.startedAt = "now"]
                             ELSE courts[k]]
             /\ players' = setStatus(players, Range(ids), "playing")
             /\ readySets' = readySets
             /\ pending' = dueEffects(TRUE, TRUE, FALSE, startArmed)

assignSetToCourt(setIndex, courtId) ==
    LET ids == IF setIndex \in 1..Len(readySets) THEN readySets[setIndex] ELSE <<>>
    IN  IF Len(ids) # 4
        THEN UNCHANGED <<players, courts, readySets, pending>>
        ELSE /\ courts' = [k \in 1..Len(courts) |->
                             IF courts[k].id = courtId
                             THEN [courts[k] EXCEPT !.playingIds = ids, !.startedAt = "now"]
                             ELSE courts[k]]
             /\ players' = setStatus(players, Range(ids), "playing")
             /\ readySets' = shiftSetsAfterAssign(readySets, setIndex)
             /\ pending' = dueEffects(TRUE, TRUE, FALSE, startArmed)

(* The assign modal lists the idle courts only.  It is open only after    *)
(* Play stored assignTargetSet, so the null test of onAssign never fails.  *)
chooseCourt(courtId) ==
    /\ Quiescent
    /\ assignOpen
    /\ courtId \in idleCourts
    /\ assignSetToCourt(assignTargetSet, courtId)
    /\ assignOpen' = FALSE
    /\ firstMatchDone' = TRUE
    /\ UNCHANGED <<startArmed, editTargetId, uidP, uidC>>

(* Not a step of the app, whose handlers and effects each run to the end   *)
(* on the state of the latest render: fillAllSets split at line 285.  Its  *)
(* first part (276-284) computes newSets and used from the players and     *)
(* readySets it holds; then onAssign runs; then its second part (286-290)  *)
(* writes newSets over the sets and marks used "ready".  When used is      *)
(* empty the second part writes nothing and the step is chooseCourt.       *)
fillAroundAssign(courtId) ==
    /\ Quiescent
    /\ assignOpen
    /\ courtId \in idleCourts
    /\ Len(readySets) >= assignTargetSet
    /\ Len(readySets[assignTargetSet]) = 4
    /\ \E queue \in fillQueues :
          LET r == fillAllSets(queue)
              ids == readySets[assignTargetSet]
          IN  /\ Len(r.used) # 0
              /\ courts' = [k \in 1..Len(courts) |->
                              IF courts[k].id = courtId
                              THEN [courts[k] EXCEPT !.playingIds = ids, !.startedAt = "now"]
                              ELSE courts[k]]
              /\ players' = setStatus(setStatus(players, Range(ids), "playing"),
                                      Range(r.used), "ready")
              /\ readySets' = r.sets
              /\ pending' = dueEffects(TRUE, TRUE, FALSE, startArmed)
    /\ assignOpen' = FALSE
    /\ firstMatchDone' = TRUE
    /\ UNCHANGED <<startArmed, editTargetId, uidP, uidC>>

(* what endMatch sets for a court id: nothing when no court has the id,    *)
(* no player when the court has no occupant                                *)
endMatchPlayers(courtId) ==
    IF courtId \notin courtIds THEN players
    ELSE LET ids == courtById(courtId).playingIds
         IN  IF Len(ids) # 0 THEN finishMatch(players, Range(ids)) ELSE players

(* mutant: the court is dropped from the list *)
endMatchCourts_DropsCourt(courtId) ==
    LET keep(c) == c.id # courtId IN SelectSeq(courts, keep)

endMatchCourts(courtId) ==
    IF courtId \notin courtIds THEN courts
    ELSE [k \in 1..Len(courts) |->
             IF courts[k].id = courtId
             THEN [courts[k] EXCEPT !.playingIds = <<>>, !.startedAt = "null"]
             ELSE courts[k]]

(* the Done button is rendered for an active court only *)
endMatch(courtId) ==
    /\ Quiescent
    /\ courtId \in courtIds
    /\ Len(courtById(courtId).playingIds) > 0
    /\ CanCount(Range(courtById(courtId).playingIds))
    /\ players' = endMatchPlayers(courtId)
    /\ pending' = IF players' # players
                  THEN dueEffects(TRUE, FALSE, FALSE, startArmed) ELSE pending
    /\ courts' = endMatchCourts(courtId)
    /\ UNCHANGED <<readySets, firstMatchDone, startArmed, modalVars, uidP, uidC>>

(* ------------------------------- effects ------------------------------- *)
(* One commit's passive effects, run with the rendered players and sets:   *)
(* the auto-fill effect (when armed) and then the sanitize effect (when    *)
(* players changed); their updates are applied in the order queued.        *)
(* mutant: the sets are left as they are *)
sanitize_KeepsAll(sets, ps) == sets

sanitize(sets, ps) ==
    LET ids == {ps[k].id : k \in 1..Len(ps)}
        exists(id) == id \in ids
    IN  [k \in 1..Len(sets) |-> SelectSeq(sets[k], exists)]

EffectsPass ==
    /\ ~Quiescent
    /\ \E queue \in (IF "autoFill" \in pending THEN fillQueues ELSE {<<>>}) :
          LET r == fillAllSets(queue)
              filled == "autoFill" \in pending /\ startArmed /\ Len(r.used) # 0
              sanitized == "sanitize" \in pending
              afterFill == IF filled THEN r.sets ELSE readySets
          IN  /\ readySets' = IF sanitized THEN sanitize(afterFill, players) ELSE afterFill
              /\ players' = IF filled THEN setStatus(players, Range(r.used), "ready")
                            ELSE players
              /\ pending' = dueEffects(filled, filled \/ sanitized, FALSE, startArmed)
    /\ UNCHANGED <<courts, firstMatchDone, startArmed, modalVars, uidP, uidC>>

(* -------------------------------- Next --------------------------------- *)
SetIndexes == 1..MaxSets
SlotIndexes == 1..capacity

Next ==
    \/ confirmAddPlayer
    \/ \E id \in playerIds : openEditPlayer(id)
    \/ cancelEditPlayer
    \/ saveEditPlayer
    \/ deletePlayer
    \/ \E id \in playerIds : addToReady(id)
    \/ \E i \in SetIndexes, idx \in SlotIndexes, id \in playerIds : chooseSwap(i, idx, id)
    \/ clickStart
    \/ addReadySet
    \/ \E i \in SetIndexes : removeSet(i)
    \/ clickPlay
    \/ closeAssign
    \/ \E c \in courtIds : chooseCourt(c)
    \/ addCourt
    \/ \E c \in courtIds : removeCourt(c)
    \/ \E c \in courtIds : endMatch(c)
    \/ EffectsPass

Spec == Init /\ [][Next]_vars

(* ---------------- a later session: two courts, eight players ----------- *)
(* The state loaded from a stored snapshot of an earlier session in which  *)
(* eight players and two courts were added, the first four players play on *)
(* the first court and the other four are ready in the first set.          *)
storedPlayer(n, st) ==
    [id |-> uid(n), name |-> FormName(n), skill |-> FormSkill(n),
     matches |-> 0, status |-> st]

InitCourts ==
    /\ players = [k \in 1..8 |-> storedPlayer(8 - k, IF 8 - k < 4 THEN "playing" ELSE "ready")]
    /\ courts = <<[id |-> 1, playingIds |-> <<1, 2, 3, 4>>, startedAt |-> "now"],
                  [id |-> 2, playingIds |-> <<>>, startedAt |-> "null"]>>
    /\ readySets = initialReadySets(<<<<5, 6, 7, 8>>, <<>>>>)
    /\ firstMatchDone = TRUE
    /\ startArmed = FALSE
    /\ assignOpen = FALSE
    /\ editTargetId = Null
    /\ uidP = 8
    /\ uidC = 2
    /\ pending = dueEffects(TRUE, TRUE, TRUE, FALSE)

NextCourts ==
    \/ clickStart
    \/ \E i \in SetIndexes : removeSet(i)
    \/ clickPlay
    \/ closeAssign
    \/ \E c \in courtIds : chooseCourt(c)
    \/ \E c \in courtIds : removeCourt(c)
    \/ \E c \in courtIds : endMatch(c)
    \/ EffectsPass

SpecCourts == InitCourts /\ [][NextCourts]_vars

(* ------------- a later session: a pool with any attributes ------------- *)
(* The state loaded from a stored snapshot in which FillPool players wait  *)
(* in the pool, each with any matches counter, skill and name, and two     *)
(* more players are ready in the only set.  No court is left.              *)
FillMatches == 0..2
FillNames == 1..2
Skills == {Novice, Intermediate, Advance}

InitFill ==
    /\ \E ms \in [1..FillPool -> FillMatches], sk \in [1..FillPool -> Skills],
          nm \in [1..FillPool -> FillNames] :
          players = [k \in 1..FillPool |->
                        [id |-> k, name |-> nm[k], skill |-> sk[k],
                         matches |-> ms[k], status |-> "pool"]]
                      \o <<[id |-> FillPool + 1, name |-> 1, skill |-> Novice,
                            matches |-> 0, status |-> "ready"],
                           [id |-> FillPool + 2, name |-> 2, skill |-> Novice,
                            matches |-> 0, status |-> "ready"]>>
    /\ courts = <<>>
    /\ readySets = initialReadySets(<<<<FillPool + 1, FillPool + 2>>>>)
    /\ firstMatchDone = TRUE
    /\ startArmed = FALSE
    /\ assignOpen = FALSE
    /\ editTargetId = Null
    /\ uidP = FillPool + 2
    /\ uidC = 0
    /\ pending = dueEffects(TRUE, TRUE, TRUE, FALSE)

NextFill ==
    \/ clickStart
    \/ addReadySet
    \/ EffectsPass

SpecFill == InitFill /\ [][NextFill]_vars

(* ------------- a later session: players in two ready sets -------------- *)
(* The state loaded from a stored snapshot in which six players were       *)
(* added and have played up to two matches; three are ready in the first   *)
(* set, one in the second, two wait in the pool, and no court is left.     *)
InitSets ==
    /\ players = [k \in 1..6 |->
                    [storedPlayer(6 - k, IF 6 - k < 4 THEN "ready" ELSE "pool")
                        EXCEPT !.matches = (6 - k) % 3]]
    /\ courts = <<>>
    /\ readySets = initialReadySets(<<<<1, 2, 3>>, <<4>>>>)
    /\ firstMatchDone = TRUE
    /\ startArmed = FALSE
    /\ assignOpen = FALSE
    /\ editTargetId = Null
    /\ uidP = 6
    /\ uidC = 0
    /\ pending = dueEffects(TRUE, TRUE, TRUE, FALSE)

NextSets ==
    \/ \E id \in playerIds : openEditPlayer(id)
    \/ cancelEditPlayer
    \/ deletePlayer
    \/ \E id \in playerIds : addToReady(id)
    \/ \E i \in SetIndexes, idx \in SlotIndexes, id \in playerIds : chooseSwap(i, idx, id)
    \/ clickStart
    \/ addReadySet
    \/ \E i \in SetIndexes : removeSet(i)
    \/ EffectsPass

SpecSets == InitSets /\ [][NextSets]_vars

(* ------------- a later session: a match is on, two wait ---------------- *)
(* The state loaded from a stored snapshot in which six players and one    *)
(* court were added, the first four players play on the court and two      *)
(* wait in the pool; nobody has finished a match.  Any number of players   *)
(* may be deleted.                                                         *)
InitDeletes ==
    /\ players = [k \in 1..6 |-> storedPlayer(6 - k, IF 6 - k < 4 THEN "playing" ELSE "pool")]
    /\ courts = <<[id |-> 1, playingIds |-> <<1, 2, 3, 4>>, startedAt |-> "now"]>>
    /\ readySets = initialReadySets(<<<<>>>>)
    /\ firstMatchDone = TRUE
    /\ startArmed = FALSE
    /\ assignOpen = FALSE
    /\ editTargetId = Null
    /\ uidP = 6
    /\ uidC = 1
    /\ pending = dueEffects(TRUE, TRUE, TRUE, FALSE)

NextDeletes ==
    \/ \E id \in playerIds : openEditModal(id)
    \/ cancelEditPlayer
    \/ deletePlayer
    \/ \E id \in playerIds : addToReady(id)
    \/ clickStart
    \/ clickPlay
    \/ closeAssign
    \/ \E c \in courtIds : chooseCourt(c)
    \/ \E c \in courtIds : endMatch(c)
    \/ EffectsPass

SpecDeletes == InitDeletes /\ [][NextDeletes]_vars

(* ------------- a later session: the passes of the effects -------------- *)
(* The state loaded from a stored snapshot in which four players and one   *)
(* court were added and the four play on the court.  React runs the        *)
(* effects that are due after every commit, and no event is handled        *)
(* before them: a pass that is due is taken.                               *)
InitSettle ==
    /\ players = [k \in 1..4 |-> storedPlayer(4 - k, "playing")]
    /\ courts = <<[id |-> 1, playingIds |-> <<1, 2, 3, 4>>, startedAt |-> "now"]>>
    /\ readySets = initialReadySets(<<<<>>>>)
    /\ firstMatchDone = TRUE
    /\ startArmed = FALSE
    /\ assignOpen = FALSE
    /\ editTargetId = Null
    /\ uidP = 4
    /\ uidC = 1
    /\ pending = dueEffects(TRUE, TRUE, TRUE, FALSE)

NextSettle ==
    \/ \E id \in playerIds : openEditModal(id)
    \/ cancelEditPlayer
    \/ deletePlayer
    \/ \E id \in playerIds : addToReady(id)
    \/ clickStart
    \/ addReadySet
    \/ \E i \in SetIndexes : removeSet(i)
    \/ clickPlay
    \/ closeAssign
    \/ \E c \in courtIds : chooseCourt(c)
    \/ \E c \in courtIds : endMatch(c)
    \/ EffectsPass

SpecSettle == InitSettle /\ [][NextSettle]_vars /\ WF_vars(EffectsPass)

(* ------------- operations that are not serialized --------------------- *)
(* The state loaded from a stored snapshot in which six players and one    *)
(* court were added, four players are ready in the first set, the second   *)
(* set is empty and two players wait in the pool.  Besides the steps of    *)
(* the app, a fill may run around an assignment.                           *)
InitInterleaved ==
    /\ players = [k \in 1..6 |-> storedPlayer(6 - k, IF 6 - k < 4 THEN "ready" ELSE "pool")]
    /\ courts = <<[id |-> 1, playingIds |-> <<>>, startedAt |-> "null"]>>
    /\ readySets = initialReadySets(<<<<1, 2, 3, 4>>, <<>>>>)
    /\ firstMatchDone = FALSE
    /\ startArmed = FALSE
    /\ assignOpen = FALSE
    /\ editTargetId = Null
    /\ uidP = 6
    /\ uidC = 1
    /\ pending = dueEffects(TRUE, TRUE, TRUE, FALSE)

NextInterleaved ==
    \/ \E id \in playerIds : addToReady(id)
    \/ clickStart
    \/ clickPlay
    \/ closeAssign
    \/ \E c \in courtIds : chooseCourt(c)
    \/ \E c \in courtIds : endMatch(c)
    \/ \E c \in courtIds : fillAroundAssign(c)
    \/ EffectsPass

SpecInterleaved == InitInterleaved /\ [][NextInterleaved]_vars

(* ------------- a later session: sets that name deleted players --------- *)
(* The state loaded from a snapshot that two windows of the app wrote:     *)
(* the sets by the window in which five players were there and three of    *)
(* them, player 5 among them, were ready in the first set; the players by  *)
(* the window in which player 5, and perhaps others, had been deleted.     *)
StoredIds == 1..5
StoredSets ==
    {st \in [1..3 -> StoredIds] :
        /\ \A i, j \in 1..3 : st[i] = st[j] => i = j
        /\ \E i \in 1..3 : st[i] = 5}

InitStored ==
    /\ \E present \in SUBSET (1..4), st \in StoredSets, more \in {<<>>, <<<<>>>>} :
          /\ players = SelectSeq(
                 [k \in 1..5 |-> storedPlayer(5 - k,
                     IF \E i \in 1..3 : st[i] = uid(5 - k) THEN "ready" ELSE "pool")],
                 LAMBDA p : p.id \in present)
          /\ readySets = initialReadySets(<<st>> \o more)
    /\ courts = <<>>
    /\ firstMatchDone = FALSE
    /\ startArmed = FALSE
    /\ assignOpen = FALSE
    /\ editTargetId = Null
    /\ uidP = 5
    /\ uidC = 0
    /\ pending = dueEffects(TRUE, TRUE, TRUE, FALSE)

NextStored ==
    \/ \E id \in playerIds : openEditModal(id)
    \/ cancelEditPlayer
    \/ deletePlayer
    \/ \E id \in playerIds : addToReady(id)
    \/ clickStart
    \/ addReadySet
    \/ EffectsPass

SpecStored == InitStored /\ [][NextStored]_vars

(* ======================= properties of the program ===================== *)
(* how often an id occurs in the ready sets / in the courts' playingIds *)
readyOccurrences(id) ==
    Cardinality({<<k, j>> \in (1..Len(readySets)) \X (1..capacity) :
                    j <= Len(readySets[k]) /\ readySets[k][j] = id})

playingOccurrences(id) ==
    Cardinality({<<k, j>> \in (1..Len(courts)) \X (1..capacity) :
                    j <= Len(courts[k].playingIds) /\ courts[k].playingIds[j] = id})

readyIds == UNION {Range(readySets[k]) : k \in 1..Len(readySets)}

playerOf(id) == players[CHOOSE k \in 1..Len(players) : players[k].id = id]

statusOf(ps, id) ==
    IF \E k \in 1..Len(ps) : ps[k].id = id
    THEN ps[CHOOSE k \in 1..Len(ps) : ps[k].id = id].status
    ELSE "none"

matchesOf(ps, id) ==
    IF \E k \in 1..Len(ps) : ps[k].id = id
    THEN ps[CHOOSE k \in 1..Len(ps) : ps[k].id = id].matches
    ELSE 0

(* C1: status consistency.  In every reachable state a player is "ready"   *)
(* iff its id occurs in exactly one slot of the ready sets, "playing" iff  *)
(* its id occurs in exactly one court's playingIds, and "pool" iff its id  *)
(* occurs in no ready set and in no court.                                 *)
C1_StatusConsistency ==
    \A k \in 1..Len(players) :
        LET p == players[k]
        IN  /\ (p.status = "ready") <=> (readyOccurrences(p.id) = 1)
            /\ (p.status = "playing") <=> (playingOccurrences(p.id) = 1)
            /\ (p.status = "pool") <=>
                   (readyOccurrences(p.id) = 0 /\ playingOccurrences(p.id) = 0)

(* a court is active while a player who has finished a match is back in   *)
(* the pool                                                                *)
C1_Witness ==
    /\ \E k \in 1..Len(courts) : Len(courts[k].playingIds) = capacity
    /\ \E k \in 1..Len(players) : players[k].status = "pool" /\ players[k].matches > 0

(* C2: station occupancy.  In every reachable state every court's          *)
(* playingIds has length 0 or 4.                                           *)
C2_StationOccupancy ==
    \A k \in 1..Len(courts) : Len(courts[k].playingIds) \in {0, capacity}

(* C3: group capacity.  In every reachable state every ready set holds     *)
(* between 0 and 4 ids.                                                    *)
C3_GroupCapacity ==
    \A k \in 1..Len(readySets) : Len(readySets[k]) <= capacity

(* the first set is full and a further player went to the second set *)
C3_Witness ==
    /\ Len(readySets) = 2
    /\ Len(readySets[1]) = capacity
    /\ Len(readySets[2]) = 1

(* C4: the sequence of ready sets is never empty, from startup on.         *)
C4_NonEmptySets == Len(readySets) >= 1

(* the only set was assigned to a court and an empty set took its place *)
C4_Witness ==
    /\ \E k \in 1..Len(courts) : Len(courts[k].playingIds) = capacity
    /\ readySets = <<<<>>>>

(* C5: no id occurs twice in the ready sets, and every id in a ready set   *)
(* belongs to an existing player whose status is "ready".                  *)
C5_NoDuplicatesAllReady ==
    \A id \in readyIds :
        /\ readyOccurrences(id) = 1
        /\ statusOf(players, id) = "ready"

(* both sets hold players, five in all *)
C5_Witness ==
    /\ Len(readySets) = 2
    /\ Len(readySets[1]) + Len(readySets[2]) = 5

(* the set Play stored as the target holds exactly 4 ids *)
fullTarget == Len(readySets[assignTargetSet]) = capacity

(* a court with occupants receives no new occupant in this step *)
BusyCourtsKept ==
    \A k \in 1..Len(courts), j \in 1..Len(courts') :
        (courts'[j].id = courts[k].id /\ Len(courts[k].playingIds) # 0)
            => Range(courts'[j].playingIds) \subseteq Range(courts[k].playingIds)

AssignPost(c) ==
    LET ids == readySets[assignTargetSet]
    IN  /\ Len(courts') = Len(courts)
        /\ \A k \in 1..Len(courts) :
              IF courts[k].id = c
              THEN courts'[k] = [id |-> c, playingIds |-> ids, startedAt |-> "now"]
              ELSE courts'[k] = courts[k]
        /\ Len(players') = Len(players)
        /\ \A k \in 1..Len(players) :
              IF players[k].id \in Range(ids)
              THEN players'[k] = [players[k] EXCEPT !.status = "playing"]
              ELSE players'[k] = players[k]
        /\ Cardinality({k \in 1..Len(players) :
                          players[k].status # "playing"
                            /\ players'[k].status = "playing"}) = 4

(* C7: when assignment succeeds (target set holds exactly 4 ids, court     *)
(* idle) the court's playingIds become those 4 ids in the same order, its  *)
(* startedAt is set, exactly those 4 players become "playing", and no      *)
(* other player's status or matches counter changes.                       *)
C7_AssignEffects ==
    [][\A c \in courtIds : (chooseCourt(c) /\ fullTarget) => AssignPost(c)]_vars

(* a court plays the four, started, while a fifth player is not playing *)
C7_Witness ==
    /\ \E k \in 1..Len(courts) :
          /\ Len(courts[k].playingIds) = capacity
          /\ courts[k].startedAt = "now"
          /\ \A id \in Range(courts[k].playingIds) : statusOf(players, id) = "playing"
    /\ \E k \in 1..Len(players) : players[k].status = "ready"

(* the sets without the one at index i, followed by one empty set *)
Rotated(sets, i) ==
    [k \in 1..Len(sets) |->
        IF k < i THEN sets[k] ELSE IF k < Len(sets) THEN sets[k + 1] ELSE <<>>]

(* C8: assignment rotates the sets: the new sequence is the old one with   *)
(* the assigned set removed, the later sets shifted down by one, and one   *)
(* new empty set at the end, so its length is unchanged.  This holds of    *)
(* shiftSetsAfterAssign for every index and of every successful assign.    *)
C8_AssignRotates ==
    [][/\ \A i \in 1..Len(readySets) :
              shiftSetsAfterAssign(readySets, i) = Rotated(readySets, i)
       /\ \A c \in courtIds :
              (chooseCourt(c) /\ fullTarget)
                  => readySets' = Rotated(readySets, assignTargetSet)]_vars

(* right after an assign: the court is active, the former second set is    *)
(* now the first and an empty set follows it                               *)
C8_Witness ==
    /\ \E k \in 1..Len(courts) : Len(courts[k].playingIds) = capacity
    /\ ~assignOpen
    /\ ~Quiescent
    /\ Len(readySets) = 2
    /\ Len(readySets[1]) = 1
    /\ readySets[2] = <<>>

(* what ending the match on court c leaves *)
EndMatchPost(c) ==
    LET ids == Range(courtById(c).playingIds)
    IN  /\ Len(players') = Len(players)
        /\ \A k \in 1..Len(players) :
              IF players[k].id \in ids
              THEN players'[k] = [players[k] EXCEPT !.status = "pool",
                                                    !.matches = players[k].matches + 1]
              ELSE players'[k] = players[k]
        /\ Len(courts') = Len(courts)
        /\ \A k \in 1..Len(courts) :
              IF courts[k].id = c
              THEN courts'[k] = [id |-> c, playingIds |-> <<>>, startedAt |-> "null"]
              ELSE courts'[k] = courts[k]
        /\ readySets' = readySets

(* C9: ending the match of an active court adds exactly 1 to the matches   *)
(* counter of each of its occupants and returns them to the pool, clears   *)
(* the court's playingIds and startedAt, and leaves every other player,    *)
(* every other court and every ready set unchanged.                        *)
C9_EndMatch ==
    [][\A c \in courtIds : endMatch(c) => EndMatchPost(c)]_vars

(* one court has ended its match, its four players are back in the pool    *)
(* with one match each, and the other court is still playing               *)
C9_Witness ==
    /\ \E k \in 1..Len(courts) :
          courts[k].playingIds = <<>> /\ courts[k].startedAt = "null"
    /\ \E k \in 1..Len(courts) : Len(courts[k].playingIds) = capacity
    /\ Cardinality({k \in 1..Len(players) :
                      players[k].status = "pool" /\ players[k].matches = 1}) = 4
    /\ \E k \in 1..Len(players) :
          players[k].status = "playing" /\ players[k].matches = 0

(* a is strictly before b in the order (matches, skill tier, name) *)
StrictlyBefore(a, b) ==
    \/ a.matches < b.matches
    \/ a.matches = b.matches /\ a.skill < b.skill
    \/ a.matches = b.matches /\ a.skill = b.skill /\ a.name < b.name

(* the slot an id holds in the sets, <<0, 0>> when it holds none *)
slotOf(sets, id) ==
    LET at == {<<k, j>> \in (1..Len(sets)) \X (1..capacity) :
                  j <= Len(sets[k]) /\ sets[k][j] = id}
    IN  IF at = {} THEN <<0, 0>> ELSE CHOOSE x \in at : TRUE

EarlierSlot(x, y) == x[1] < y[1] \/ (x[1] = y[1] /\ x[2] < y[2])

(* C10: selection fairness.  When some player has matches > 0, a fill      *)
(* (Start, or the armed auto-fill) takes the pool in ascending order of    *)
(* (matches, skill tier, name): for pool players a strictly before b, if   *)
(* b becomes ready then a becomes ready too, at an earlier slot.           *)
C10_SelectionFairness ==
    [][((clickStart \/ EffectsPass) /\ anyMatches) =>
          \A ka, kb \in 1..Len(players) :
              (/\ players[ka].status = "pool"
               /\ players[kb].status = "pool"
               /\ StrictlyBefore(players[ka], players[kb])
               /\ players'[kb].status = "ready")
                  => /\ players'[ka].status = "ready"
                     /\ slotOf(readySets', players[ka].id) # <<0, 0>>
                     /\ EarlierSlot(slotOf(readySets', players[ka].id),
                                    slotOf(readySets', players[kb].id))]_vars

(* after a fill of the two free slots: they hold players with fewer        *)
(* matches first, and a player with still more matches is left in the pool *)
C10_Witness ==
    /\ startArmed
    /\ Len(readySets[1]) = capacity
    /\ matchesOf(players, readySets[1][3]) < matchesOf(players, readySets[1][4])
    /\ \E k \in 1..Len(players) :
          /\ players[k].status = "pool"
          /\ players[k].matches > matchesOf(players, readySets[1][4])

(* --------------------------- fills (C11..C13) -------------------------- *)
(* a step of fillAllSets: the Start button or the armed auto-fill effect *)
FillStep == clickStart \/ (EffectsPass /\ "autoFill" \in pending)

IsPrefix(s, t) == Len(s) <= Len(t) /\ SubSeq(t, 1, Len(s)) = s

RECURSIVE freeSlots(_)
freeSlots(sets) ==
    IF sets = <<>> THEN 0
    ELSE (IF Len(Head(sets)) < capacity THEN capacity - Len(Head(sets)) ELSE 0)
           + freeSlots(Tail(sets))

(* the positions in players of those who leave the pool for a set in this step *)
newlyStaged ==
    {k \in 1..Len(players) :
        /\ k <= Len(players')
        /\ players[k].status = "pool"
        /\ players'[k].status = "ready"}

(* C11: fill distribution.  A fill never changes the number of sets; each  *)
(* set's previous contents are an unchanged prefix of its new contents;    *)
(* a set receives a new member only if every set before it is full         *)
(* afterwards; the number of players moved from pool to ready equals       *)
(* min(pool size, free slots over all sets), the moved players are exactly *)
(* the ids added to the sets, and no other player record changes.          *)
C11_FillDistribution ==
    [][FillStep =>
          /\ Len(readySets') = Len(readySets)
          /\ \A k \in 1..Len(readySets) :
                /\ IsPrefix(readySets[k], readySets'[k])
                /\ Len(readySets'[k]) > Len(readySets[k])
                      => \A j \in 1..(k - 1) : Len(readySets'[j]) = capacity
          /\ Len(players') = Len(players)
          /\ Cardinality(newlyStaged)
                = (IF Len(poolPlayers) < freeSlots(readySets)
                   THEN Len(poolPlayers) ELSE freeSlots(readySets))
          /\ {players[k].id : k \in newlyStaged}
                = UNION {{readySets'[k][j] : j \in (Len(readySets[k]) + 1)..Len(readySets'[k])} :
                            k \in 1..Len(readySets)}
          /\ \A k \in 1..Len(players) :
                k \notin newlyStaged => players'[k] = players[k]]_vars

(* one fill has completed the first set and begun the second *)
C11_Witness ==
    /\ startArmed
    /\ Len(readySets) = 2
    /\ Len(readySets[1]) = capacity
    /\ Len(readySets[2]) = 1
    /\ poolPlayers = <<>>

allSetsFull(sets) == \A k \in 1..Len(sets) : Len(sets[k]) >= capacity

(* C12: fill idempotence.  A fill in a state where every set is full or    *)
(* no player is in the pool leaves players, ready sets and courts          *)
(* unchanged; and every fill ends in such a state, so a second fill in a   *)
(* row changes nothing.                                                    *)
C12_FillIdempotent ==
    [][FillStep =>
          /\ (allSetsFull(readySets) \/ poolPlayers = <<>>) => UNCHANGED entities
          /\ allSetsFull(readySets') \/ poolPlayers' = <<>>]_vars

(* Start filled the set, the auto-fill effect then ran without effect:     *)
(* the sets are full and players still wait in the pool                    *)
C12_Witness ==
    /\ startArmed
    /\ Quiescent
    /\ allSetsFull(readySets)
    /\ poolPlayers # <<>>
    /\ \E k \in 1..Len(players) : players[k].status = "ready"

(* every arrangement of the elements of arr at the positions idx *)
RECURSIVE permutations(_, _)
permutations(arr, idx) ==
    IF idx = {} THEN {<<>>}
    ELSE UNION {{<<arr[k]>> \o p : p \in permutations(arr, idx \ {k})} : k \in idx}

(* C13: first-round randomization.  While every matches counter is 0 the   *)
(* queue of a fill may be any permutation of the pool; each permutation    *)
(* comes from exactly one run of the random draws, so uniform draws give   *)
(* a uniform order; and with at least 2 pool players and a free slot a     *)
(* fill can leave at least two different contents of the ready sets.       *)
C13_FirstRoundRandom ==
    ~anyMatches =>
        /\ fillQueues = permutations(poolPlayers, 1..Len(poolPlayers))
        /\ \A q \in fillQueues :
              Cardinality({d \in shuffleDraws(Len(poolPlayers)) :
                              shuffleLoop(poolPlayers, Len(poolPlayers), d) = q}) = 1
        /\ (Len(poolPlayers) >= 2 /\ freeSlots(readySets) >= 1)
              => Cardinality({fillAllSets(q).sets : q \in fillQueues}) >= 2

(* a first-round fill has staged two pool players against their order in  *)
(* the players array                                                       *)
C13_Witness ==
    /\ ~anyMatches
    /\ startArmed
    /\ Len(readySets[1]) = capacity
    /\ \E a, b \in 1..Len(players) :
          /\ a < b
          /\ players[b].id = readySets[1][3]
          /\ players[a].id = readySets[1][4]
    /\ poolPlayers # <<>>

(* ------------------------ set handlers (C14..C18) ---------------------- *)
(* what Ready leaves for pool player id: the id appended to the first set  *)
(* with fewer than 4 ids, that player "ready", nothing else changed        *)
PromotePost(id) ==
    LET free == {k \in 1..Len(readySets) : Len(readySets[k]) < capacity}
        target == CHOOSE k \in free : \A j \in free : k <= j
    IN  /\ free # {}
        /\ Len(readySets') = Len(readySets)
        /\ \A k \in 1..Len(readySets) :
              readySets'[k] = IF k = target THEN readySets[k] \o <<id>>
                              ELSE readySets[k]
        /\ Len(players') = Len(players)
        /\ \A k \in 1..Len(players) :
              players'[k] = IF players[k].id = id
                            THEN [players[k] EXCEPT !.status = "ready"]
                            ELSE players[k]
        /\ courts' = courts

SwapPost(i, idx, poolId) ==
    LET outId == readySets[i][idx]
    IN  /\ Len(readySets') = Len(readySets)
        /\ \A k \in 1..Len(readySets) :
              /\ Len(readySets'[k]) = Len(readySets[k])
              /\ \A j \in 1..Len(readySets[k]) :
                    readySets'[k][j] = IF k = i /\ j = idx THEN poolId
                                       ELSE readySets[k][j]
        /\ courts' = courts
        /\ Len(players') = Len(players)
        /\ \A k \in 1..Len(players) :
              players'[k] =
                 IF players[k].id = outId THEN [players[k] EXCEPT !.status = "pool"]
                 ELSE IF players[k].id = poolId
                      THEN [players[k] EXCEPT !.status = "ready"]
                      ELSE players[k]
        /\ statusOf(players', outId) = "pool"
        /\ statusOf(players', poolId) = "ready"

(* C15: swap preserves the slot.  A successful swap replaces only the id   *)
(* at the chosen slot of the chosen set by the pool player's id; the       *)
(* set's length and its other slots, every other set and every court are   *)
(* unchanged; the outgoing player becomes "pool", the incoming one         *)
(* "ready", and no matches counter changes.                                *)
C15_SwapKeepsSlot ==
    [][\A i \in SetIndexes, idx \in SlotIndexes, id \in playerIds :
          (chooseSwap(i, idx, id) /\ slotId(readySets, i, idx) # Null)
              => SwapPost(i, idx, id)]_vars

(* pool player 5 has taken the middle slot of the first set from player 2 *)
C15_Witness ==
    /\ readySets[1] = <<1, 5, 3>>
    /\ statusOf(players, 2) = "pool"
    /\ statusOf(players, 5) = "ready"
    /\ matchesOf(players, 2) = 1

(* every id that enters a slot of the ready sets in this step belonged to  *)
(* a pool player before the step                                           *)
StagedFromPool ==
    \A k \in 1..Len(readySets') :
        \A j \in 1..Len(readySets'[k]) :
            readySets'[k][j] \notin readyIds
                => statusOf(players, readySets'[k][j]) = "pool"

DeleteReadyPost(id) ==
    /\ Len(readySets') = Len(readySets)
    /\ \E g \in 1..Len(readySets) :
          \E j \in 1..Len(readySets[g]) :
             /\ readySets[g][j] = id
             /\ Len(readySets'[g]) = Len(readySets[g]) - 1
             /\ readySets'[g] = SubSeq(readySets[g], 1, j - 1)
                                  \o SubSeq(readySets[g], j + 1, Len(readySets[g]))
             /\ \A k \in 1..Len(readySets) : k # g => readySets'[k] = readySets[k]
    /\ courts' = courts
    /\ Len(players') = Len(players) - 1
    /\ \E d \in 1..Len(players) :
          /\ players[d].id = id
          /\ \A k \in 1..Len(players') :
                players'[k] = IF k < d THEN players[k] ELSE players[k + 1]

(* C17: deletion cascade.  Deleting a ready player removes that id from    *)
(* its set (the set shrinks by exactly 1, the remaining ids keep their     *)
(* order), deletes the player record and leaves every other set, every     *)
(* court and every other player's status and matches counter unchanged.    *)
C17_DeleteReady ==
    [][(deletePlayer /\ statusOf(players, editTargetId[1]) = "ready")
          => DeleteReadyPost(editTargetId[1])]_vars

(* player 5 was swapped into the middle of the first set and then deleted *)
C17_Witness ==
    /\ readySets[1] = <<1, 3>>
    /\ statusOf(players, 5) = "none"
    /\ statusOf(players, 2) = "pool"
    /\ Len(players) = 5

(* what removing the set at index i leaves *)
RemoveSetPost(i) ==
    LET gone == Range(readySets[i])
    IN  /\ IF Len(readySets) = 1
           THEN readySets' = <<<<>>>>
           ELSE /\ Len(readySets') = Len(readySets) - 1
                /\ \A k \in 1..Len(readySets') :
                      readySets'[k] = IF k < i THEN readySets[k] ELSE readySets[k + 1]
        /\ Len(players') = Len(players)
        /\ \A k \in 1..Len(players) :
              players'[k] = IF players[k].id \in gone
                            THEN [players[k] EXCEPT !.status = "pool"]
                            ELSE players[k]
        /\ courts' = courts

(* C18: removing a set deletes exactly the set at that index, sets each of *)
(* its players to "pool" with the matches counter unchanged, keeps the     *)
(* contents and order of all other sets, and leaves one empty set when     *)
(* the sequence would otherwise become empty.                              *)
C18_RemoveSet ==
    [][\A i \in SetIndexes : removeSet(i) => RemoveSetPost(i)]_vars

(* the first set was removed: its three players are back in the pool with  *)
(* their counters, the former second set is now the first                  *)
C18_Witness ==
    /\ readySets = <<<<4>>>>
    /\ \A id \in {1, 2, 3} : statusOf(players, id) = "pool"
    /\ matchesOf(players, 3) = 2
    /\ statusOf(players, 4) = "ready"

(* ----------------------- courts and counters (C19, C20) ---------------- *)
(* what removing court c leaves *)
RemoveCourtPost(c) ==
    LET ids == Range(courtById(c).playingIds)
    IN  /\ Len(courts') = Len(courts) - 1
        /\ \E d \in 1..Len(courts) :
              /\ courts[d].id = c
              /\ \A k \in 1..Len(courts') :
                    courts'[k] = IF k < d THEN courts[k] ELSE courts[k + 1]
        /\ Len(players') = Len(players)
        /\ \A k \in 1..Len(players) :
              players'[k] = IF players[k].id \in ids
                            THEN [players[k] EXCEPT !.status = "pool",
                                                    !.matches = players[k].matches + 1]
                            ELSE players[k]
        /\ readySets' = readySets

(* C19: removing an active court first has the effect of ending its match  *)
(* (each occupant's matches counter plus 1, exactly once, status "pool")   *)
(* and then deletes the court record; removing an idle court deletes the   *)
(* record and changes no player; other courts and all sets are unchanged.  *)
C19_RemoveCourt ==
    [][\A c \in courtIds :
          removeCourt(c)
              => /\ RemoveCourtPost(c)
                 /\ Len(courtById(c).playingIds) = 0 => players' = players]_vars

(* the second court was removed while its match was on: its four players   *)
(* are in the pool with one match counted, the first court plays on        *)
C19_Witness ==
    /\ courtIds = {1}
    /\ courts[1].playingIds = <<1, 2, 3, 4>>
    /\ \A id \in {5, 6, 7, 8} :
          statusOf(players, id) = "pool" /\ matchesOf(players, id) = 1
    /\ \A id \in {1, 2, 3, 4} :
          statusOf(players, id) = "playing" /\ matchesOf(players, id) = 0

(* the match of a court on which id plays ends in this step *)
MatchEndsFor(id) ==
    \E c \in courtIds :
        /\ id \in Range(courtById(c).playingIds)
        /\ endMatch(c) \/ removeCourt(c)

(* C20: matches counters change only when a match ends.  A player starts   *)
(* with counter 0; in every step a player's counter stays the same or      *)
(* grows by exactly 1, and it grows only for the occupants of a court      *)
(* whose match ends in that step (Done, or removal of an active court).    *)
C20_CountersOnlyByMatches ==
    [][\/ players' = players
       \/ \A j \in 1..Len(players') :
             \/ \E k \in 1..Len(players) :
                   /\ players[k].id = players'[j].id
                   /\ \/ players'[j].matches = players[k].matches
                      \/ /\ players'[j].matches = players[k].matches + 1
                         /\ MatchEndsFor(players[k].id)
             \/ /\ players'[j].id \notin playerIds
                /\ players'[j].matches = 0]_vars

(* four players have finished a match, a fifth one has not played yet and  *)
(* the court is idle again                                                 *)
C20_Witness ==
    /\ Len(players) = 5
    /\ Cardinality({k \in 1..Len(players) : players[k].matches = 1}) = 4
    /\ Cardinality({k \in 1..Len(players) : players[k].matches = 0}) = 1
    /\ Len(courts) = 1
    /\ Len(courts[1].playingIds) = 0

(* ------------------------- declined requests (C21, C22) ---------------- *)
(* the number of slots of the sets that hold id *)
occurrencesIn(sets, id) ==
    Cardinality({<<k, j>> \in (1..Len(sets)) \X (1..(capacity + 1)) :
                    j <= Len(sets[k]) /\ sets[k][j] = id})

C22_EndMatchNoOp ==
    \A c \in 1..(uidC + 1) :
        (c \notin courtIds \/ Len(courtById(c).playingIds) = 0)
            => /\ endMatchPlayers(c) = players
               /\ endMatchCourts(c) = courts

(* the first court was removed, the second is idle after its match ended,  *)
(* and players are ready                                                   *)
C22_Witness ==
    /\ courtIds = {2}
    /\ Len(courts[1].playingIds) = 0
    /\ \E k \in 1..Len(players) : players[k].matches = 1 /\ players[k].id > 4
    /\ \E k \in 1..Len(players) : players[k].status = "ready"

C24_SortedAfterFirstMatch ==
    [][anyMatches =>
         (IF anyMatches' THEN {sortPool(poolPlayers')}
                         ELSE shuffleArr(poolPlayers'))
             = {sortPool(poolPlayers')}]_vars

(* C25: after the pass that follows a change of the players, no set holds  *)
(* an id that is not the id of a player; the ids that are ids of players   *)
(* stay, in each set, in the order they had (a fill of the same pass only  *)
(* adds after them); the pass changes no court and, when it does not       *)
(* fill, no player.                                                        *)
resolving(set, ps) ==
    SelectSeq(set, LAMBDA id : \E k \in 1..Len(ps) : ps[k].id = id)

SanitizePass == "sanitize" \in pending /\ EffectsPass

C25_Sanitize ==
    [][SanitizePass =>
         /\ \A i \in 1..Len(readySets') : \A j \in 1..Len(readySets'[i]) :
               \E k \in 1..Len(players') : players'[k].id = readySets'[i][j]
         /\ Len(readySets') = Len(readySets)
         /\ \A i \in 1..Len(readySets) :
               IsPrefix(resolving(readySets[i], players), readySets'[i])
         /\ courts' = courts
         /\ "autoFill" \notin pending =>
               /\ players' = players
               /\ \A i \in 1..Len(readySets) :
                     readySets'[i] = resolving(readySets[i], players)]_vars

(* the pass has removed player 5, whom every stored first set names, and   *)
(* has kept the two others of the set, who are there                       *)
C25_Witness ==
    /\ Quiescent
    /\ ~startArmed
    /\ Len(readySets[1]) = 2
    /\ \A j \in 1..2 : \E k \in 1..Len(players) :
          players[k].id = readySets[1][j] /\ players[k].status = "ready"
    /\ uidP = 5 /\ courts = <<>> /\ editTargetId = Null

(* C26: status consistency (C1) is lost when a fill reads the players and  *)
(* sets, an assignment runs, and the fill then writes what it computed;    *)
(* it is lost in no step in which each operation runs as a whole.          *)
C26_Serialized ==
    [][(C1_StatusConsistency /\ ~C1_StatusConsistency')
          => \E c \in courtIds : fillAroundAssign(c)]_vars

(* after a fill around an assignment the four players of the match are     *)
(* "playing", on the court and still in the first set                      *)
C26_Witness ==
    /\ ~C1_StatusConsistency
    /\ \E k \in 1..Len(courts) :
          /\ Len(courts[k].playingIds) = capacity
          /\ Len(readySets) >= 1
          /\ readySets[1] = courts[k].playingIds
          /\ \A j \in 1..capacity :
                statusOf(players, courts[k].playingIds[j]) = "playing"

(* C27: the flag firstMatchDone records whether a set has ever been        *)
(* assigned to a court.  It turns true only in a step that assigns a set   *)
(* (so it is false while no assignment has occurred, a Play that is        *)
(* cancelled included), it is true after every step that assigns a set,    *)
(* and it never turns false again.                                         *)
AssignStep ==
    \E k \in 1..Len(courts) :
        /\ Len(courts[k].playingIds) = 0
        /\ k <= Len(courts')
        /\ courts'[k].id = courts[k].id
        /\ Len(courts'[k].playingIds) = capacity

C27_FlagRecordsAssign ==
    [][/\ (~firstMatchDone /\ firstMatchDone') => AssignStep
       /\ AssignStep => firstMatchDone'
       /\ firstMatchDone => firstMatchDone']_vars

(* C28: once Start has been pressed, in every state in which no effect is  *)
(* waiting, no player is in the pool while a ready set has space: a player *)
(* who comes back to the pool (Done, a removed set, a swap, a removed      *)
(* court) or is added is put into a set by the fill of the next pass.      *)
C28_ArmedAutoFill ==
    (startArmed /\ Quiescent) => (poolPlayers = <<>> \/ allSetsFull(readySets))

(* Start has been pressed, a match has been finished and one of its        *)
(* players is ready again while nobody waits in the pool                   *)
C28_Witness ==
    /\ startArmed
    /\ Quiescent
    /\ poolPlayers = <<>>
    /\ \E k \in 1..Len(players) : players[k].status = "ready" /\ players[k].matches > 0

(* C29: the passes settle.  Whenever an effect is waiting, after finitely  *)
(* many passes no effect is waiting: a pass that fills or sanitizes makes  *)
(* further passes due, and this chain ends.                                *)
C29_PassesSettle == (~Quiescent) ~> Quiescent

(* in the middle of a chain after Start: a pass has staged the players of  *)
(* a finished match, nobody is left in the pool, and both effects are due  *)
(* again                                                                   *)
C29_Witness ==
    /\ startArmed
    /\ pending = {"sanitize", "autoFill"}
    /\ poolPlayers = <<>>
    /\ \E k \in 1..Len(players) : players[k].status = "ready" /\ players[k].matches > 0

====
